---- MODULE Spec2Model ----
(***************************************************************************)
(* A model of queue.c: a queue of strings kept as a circular doubly-linked *)
(* list anchored at a sentinel.  The heap is modelled at pointer level:    *)
(* every list_head has a next and a prev field, every element owns a       *)
(* separately allocated string buffer.                                     *)
(***************************************************************************)
EXTENDS Integers, Sequences, FiniteSets, TLC

\* ---------------------------------------------------------------- bounds
\* Number of element_t objects that can be live at the same time.
MaxNodes == 3
\* Largest bufsize handed to a remove.
MaxBufSize == 3

\* ------------------------------------------------------------- addresses
NULL == 0
\* The string terminator '\0'.
NUL == 0
\* Addresses of element_t objects (e and &e->list are identified).
Nodes == 1 .. MaxNodes
\* The two addresses malloc(sizeof(struct list_head)) can return: the queue's
\* sentinel and the sentinel of q_delete_dup's scratch ring.
H == MaxNodes + 1
G == MaxNodes + 2
Heads == {H, G}
Addr == Nodes \cup Heads

\* size_t arithmetic is modular; the model keeps 16 of its bits.
SIZE_MOD == 2 ^ 16

\* ---------------------------------------------------------------- strings
\* What a byte holds that nothing has written yet (one stand-in, not NUL).
UNINIT == 3
\* Bytes that a read past the end of a buffer may deliver.
AnyByte == {NUL, UNINIT}
\* The absent string pointer (a real C string holds at least its terminator).
NoStr == << >>
\* The C strings handed to the inserts, terminator included: "", "ab" and "b"
\* (an empty one, one that is a proper extension of it, two that differ in
\* their first byte).
Strings == {<<NUL>>, <<1, 2, NUL>>, <<2, NUL>>}

RECURSIVE strlen_from(_, _)
strlen_from(s, i) == IF s[i] = NUL THEN i - 1 ELSE strlen_from(s, i + 1)
\* strlen: the number of bytes before the first terminator.
strlen(s) == strlen_from(s, 1)

RECURSIVE strcmp_from(_, _, _)
strcmp_from(a, b, i) ==
    IF a[i] # b[i] THEN (IF a[i] < b[i] THEN 0 - 1 ELSE 1)
    ELSE IF a[i] = NUL THEN 0
    ELSE strcmp_from(a, b, i + 1)
\* strcmp: the sign of the first differing byte, 0 when both end together.
strcmp(a, b) == strcmp_from(a, b, 1)

\* memcpy(dst, src, n) for n <= Len(src): the first n bytes of dst replaced.
memcpy(dst, src, n) == [i \in 1 .. Len(dst) |-> IF i <= n THEN src[i] ELSE dst[i]]

\* ------------------------------------------------------------------ heap
\* A heap is a record: next, prev (the link fields of every list_head),
\* mem (is the block allocated), value (the string buffer e->value points to,
\* << >> when there is none) and bad (a block was freed that was not
\* allocated, or that a link field of another allocated block still points to).

\* Some other allocated list_head still points to a.
linked(hp, a) ==
    \E b \in Addr \ {a} : hp.mem[b] /\ (hp.next[b] = a \/ hp.prev[b] = a)

\* malloc: the lowest free address of a pool (addresses are interchangeable).
malloc(hp, pool) == CHOOSE a \in pool : ~hp.mem[a] /\ \A b \in pool : ~hp.mem[b] => a <= b

\* free(p) of an element_t or a sentinel.
free(hp, a) ==
    [hp EXCEPT !.mem[a] = FALSE, !.next[a] = NULL, !.prev[a] = NULL,
               !.bad = hp.bad \/ ~hp.mem[a] \/ linked(hp, a)]

\* free(e->value).
free_value(hp, e) ==
    [hp EXCEPT !.value[e] = << >>, !.bad = hp.bad \/ ~hp.mem[e] \/ hp.value[e] = << >>]

\* ------------------------------------------------------- list primitives
INIT_LIST_HEAD(hp, h) == [hp EXCEPT !.next[h] = h, !.prev[h] = h]

list_empty(hp, h) == hp.next[h] = h

\* list_add: link node right after head.
list_add(hp, node, head) ==
    LET nx == hp.next[head]
    IN  [hp EXCEPT !.prev[nx] = node, !.next[node] = nx,
                   !.prev[node] = head, !.next[head] = node]

\* list_add_tail: link node right before head.
list_add_tail(hp, node, head) ==
    LET pv == hp.prev[head]
    IN  [hp EXCEPT !.next[pv] = node, !.next[node] = head,
                   !.prev[node] = pv, !.prev[head] = node]

\* list_del: unlink node; its own link fields are dead afterwards.
list_del(hp, node) ==
    LET nx == hp.next[node]
        pv == hp.prev[node]
    IN  [hp EXCEPT !.prev[nx] = pv, !.next[pv] = nx,
                   !.next[node] = NULL, !.prev[node] = NULL]

\* list_move: unlink node and link it right after head.
list_move(hp, node, head) == list_add(list_del(hp, node), node, head)

\* ------------------------------------------------------------- the queue
\* q_release_element: free(e->value); free(e).
q_release_element(hp, e) == free(free_value(hp, e), e)

\* q_new with the outcome of its malloc: [hp, ret].
q_new(hp, ok) ==
    IF ~ok THEN [hp |-> hp, ret |-> NULL]
    ELSE LET head == malloc(hp, Heads)
         IN  [hp |-> INIT_LIST_HEAD([hp EXCEPT !.mem[head] = TRUE], head), ret |-> head]

\* q_free_loop with list_for_each for list_for_each_safe: the next element is
\* looked up in pos after pos was unlinked and released.
RECURSIVE q_free_loop_unsafe(_, _, _, _)
q_free_loop_unsafe(hp, l, pos, fuel) ==
    IF pos = l \/ pos = NULL \/ fuel = 0 THEN hp
    ELSE LET h1 == q_release_element(list_del(hp, pos), pos)
         IN  q_free_loop_unsafe(h1, l, h1.next[pos], fuel - 1)

\* The list_for_each_safe loop of q_free, from pos on.
RECURSIVE q_free_loop(_, _, _, _)
q_free_loop(hp, l, pos, fuel) ==
    IF pos = l \/ pos = NULL \/ fuel = 0 THEN hp
    ELSE LET tmp == hp.next[pos]
         IN  q_free_loop(q_release_element(list_del(hp, pos), pos), l, tmp, fuel - 1)

q_free(hp, l) ==
    IF l = NULL THEN hp
    ELSE free(q_free_loop(hp, l, hp.next[l], MaxNodes + 1), l)

\* q_insert_head that returns without free(e) when the buffer's malloc fails.
q_insert_head_leak(hp, head, s, okE, okV) ==
    IF head = NULL \/ s = NoStr THEN [hp |-> hp, ret |-> FALSE]
    ELSE IF ~okE THEN [hp |-> hp, ret |-> FALSE]
    ELSE LET e == malloc(hp, Nodes)
             h1 == [hp EXCEPT !.mem[e] = TRUE]
             str_len == strlen(s)
         IN  IF ~okV THEN [hp |-> h1, ret |-> FALSE]
             ELSE LET buf == [i \in 1 .. (str_len + 1) |-> UNINIT]
                      cpy == [memcpy(buf, s, str_len) EXCEPT ![str_len + 1] = NUL]
                      h2 == [h1 EXCEPT !.value[e] = cpy]
                  IN  [hp |-> list_add(h2, e, head), ret |-> TRUE]

\* okE, okV: the outcomes of the malloc of the element and of its buffer.
q_insert_head(hp, head, s, okE, okV) ==
    IF head = NULL \/ s = NoStr THEN [hp |-> hp, ret |-> FALSE]
    ELSE IF ~okE THEN [hp |-> hp, ret |-> FALSE]
    ELSE LET e == malloc(hp, Nodes)
             h1 == [hp EXCEPT !.mem[e] = TRUE]
             str_len == strlen(s)
         IN  IF ~okV THEN [hp |-> free(h1, e), ret |-> FALSE]
             ELSE LET buf == [i \in 1 .. (str_len + 1) |-> UNINIT]
                      cpy == [memcpy(buf, s, str_len) EXCEPT ![str_len + 1] = NUL]
                      h2 == [h1 EXCEPT !.value[e] = cpy]
                  IN  [hp |-> list_add(h2, e, head), ret |-> TRUE]

\* q_insert_tail that links with list_add, as q_insert_head does.
q_insert_tail_at_head(hp, head, s, okE, okV) == q_insert_head(hp, head, s, okE, okV)

q_insert_tail(hp, head, s, okE, okV) ==
    IF head = NULL \/ s = NoStr THEN [hp |-> hp, ret |-> FALSE]
    ELSE IF ~okE THEN [hp |-> hp, ret |-> FALSE]
    ELSE LET e == malloc(hp, Nodes)
             h1 == [hp EXCEPT !.mem[e] = TRUE]
             str_len == strlen(s)
         IN  IF ~okV THEN [hp |-> free(h1, e), ret |-> FALSE]
             ELSE LET buf == [i \in 1 .. (str_len + 1) |-> UNINIT]
                      cpy == [memcpy(buf, s, str_len) EXCEPT ![str_len + 1] = NUL]
                      h2 == [h1 EXCEPT !.value[e] = cpy]
                  IN  [hp |-> list_add_tail(h2, e, head), ret |-> TRUE]

\* bufsize - 1, computed in size_t.
copy_len(bufsize) == (bufsize - 1) % SIZE_MOD

\* The number of bytes memcpy(sp, e->value, bufsize - 1) reads past the end of
\* the buffer e->value points to (0 when the read stays inside it).
over_read(val, bufsize) ==
    IF copy_len(bufsize) > Len(val) THEN copy_len(bufsize) - Len(val) ELSE 0

\* remove_copy without sp[bufsize - 1] = '\0'.
remove_copy_no_terminator(val, bufsize, beyond) ==
    memcpy([i \in 1 .. bufsize |-> UNINIT], val \o beyond, copy_len(bufsize))

\* The copy into sp: memcpy(sp, e->value, bufsize - 1); sp[bufsize - 1] = '\0'.
\* beyond: the bytes the read finds past the end of e->value.
remove_copy(val, bufsize, beyond) ==
    LET sp0 == [i \in 1 .. bufsize |-> UNINIT]
        n == copy_len(bufsize)
    IN  [memcpy(sp0, val \o beyond, n) EXCEPT ![n + 1] = NUL]

\* q_remove_head that takes the last element for the first.
q_remove_head_last(hp, head, given, bufsize, beyond) ==
    IF head = NULL \/ list_empty(hp, head) THEN [hp |-> hp, ret |-> NULL, buf |-> << >>]
    ELSE LET e == hp.prev[head]
         IN  [hp |-> list_del(hp, e), ret |-> e,
              buf |-> IF given THEN remove_copy(hp.value[e], bufsize, beyond) ELSE << >>]

\* The removes return [hp, ret, buf]; given: sp is not NULL; buf is what sp
\* holds afterwards (<< >> when nothing was copied).
q_remove_head(hp, head, given, bufsize, beyond) ==
    IF head = NULL \/ list_empty(hp, head) THEN [hp |-> hp, ret |-> NULL, buf |-> << >>]
    ELSE LET e == hp.next[head]
         IN  [hp |-> list_del(hp, e), ret |-> e,
              buf |-> IF given THEN remove_copy(hp.value[e], bufsize, beyond) ELSE << >>]

q_remove_tail(hp, head, given, bufsize, beyond) ==
    IF head = NULL \/ list_empty(hp, head) THEN [hp |-> hp, ret |-> NULL, buf |-> << >>]
    ELSE LET e == hp.prev[head]
         IN  [hp |-> list_del(hp, e), ret |-> e,
              buf |-> IF given THEN remove_copy(hp.value[e], bufsize, beyond) ELSE << >>]

\* The list_for_each loop of q_size.
RECURSIVE q_size_loop(_, _, _, _, _)
q_size_loop(hp, head, pos, size, fuel) ==
    IF pos = head \/ pos = NULL \/ fuel = 0 THEN size
    ELSE q_size_loop(hp, head, hp.next[pos], size + 1, fuel - 1)

\* q_size that starts its walk at the sentinel: it counts one step too many.
q_size_from_head(hp, head) ==
    IF head = NULL \/ list_empty(hp, head) THEN 0
    ELSE 1 + q_size_loop(hp, head, hp.next[head], 0, MaxNodes + 1)

q_size(hp, head) ==
    IF head = NULL \/ list_empty(hp, head) THEN 0
    ELSE q_size_loop(hp, head, hp.next[head], 0, MaxNodes + 1)

\* The slow/fast loop of q_delete_mid: the node slow stops at.
RECURSIVE mid_loop(_, _, _, _, _)
mid_loop(hp, head, slow, fast, fuel) ==
    IF fast # head /\ hp.next[fast] # head /\ fuel > 0
    THEN mid_loop(hp, head, hp.next[slow], hp.next[hp.next[fast]], fuel - 1)
    ELSE slow

\* q_delete_mid that unlinks the middle element and never releases it.
q_delete_mid_no_release(hp, head) ==
    IF head = NULL \/ list_empty(hp, head) THEN [hp |-> hp, ret |-> FALSE]
    ELSE LET mid == mid_loop(hp, head, hp.next[head], hp.next[hp.next[head]], MaxNodes + 1)
         IN  [hp |-> list_del(hp, mid), ret |-> TRUE]

\* q_delete_mid that releases the middle element without unlinking it.
q_delete_mid_no_unlink(hp, head) ==
    IF head = NULL \/ list_empty(hp, head) THEN [hp |-> hp, ret |-> FALSE]
    ELSE LET mid == mid_loop(hp, head, hp.next[head], hp.next[hp.next[head]], MaxNodes + 1)
         IN  [hp |-> q_release_element(hp, mid), ret |-> TRUE]

q_delete_mid(hp, head) ==
    IF head = NULL \/ list_empty(hp, head) THEN [hp |-> hp, ret |-> FALSE]
    ELSE LET mid == mid_loop(hp, head, hp.next[head], hp.next[hp.next[head]], MaxNodes + 1)
         IN  [hp |-> q_release_element(list_del(hp, mid), mid), ret |-> TRUE]

\* The list_for_each_safe loop of q_delete_dup, from (pos, nxt) on.
RECURSIVE dup_loop(_, _, _, _, _, _, _)
dup_loop(hp, head, gc, pos, nxt, should_delete, fuel) ==
    IF pos = head \/ fuel = 0 THEN hp
    ELSE IF nxt = head THEN hp
    ELSE LET eq == strcmp(hp.value[pos], hp.value[nxt]) = 0
             h1 == IF eq \/ should_delete THEN list_move(hp, pos, gc) ELSE hp
         IN  dup_loop(h1, head, gc, nxt, h1.next[nxt], eq, fuel - 1)

\* q_delete_dup with one test for no queue and for an empty one: true for both.
q_delete_dup_absent_true(hp, head, okG) ==
    IF head = NULL \/ list_empty(hp, head) THEN [hp |-> hp, ret |-> TRUE]
    ELSE LET n == q_new(hp, okG)
             gc == n.ret
         IN  IF gc = NULL THEN [hp |-> hp, ret |-> FALSE]
             ELSE LET h1 == dup_loop(n.hp, head, gc, n.hp.next[head],
                                     n.hp.next[n.hp.next[head]], FALSE, MaxNodes + 1)
                  IN  [hp |-> q_free(h1, gc), ret |-> TRUE]

\* q_delete_dup whose should_delete starts out true.
q_delete_dup_starts_deleting(hp, head, okG) ==
    IF head = NULL THEN [hp |-> hp, ret |-> FALSE]
    ELSE IF list_empty(hp, head) THEN [hp |-> hp, ret |-> TRUE]
    ELSE LET n == q_new(hp, okG)
             gc == n.ret
         IN  IF gc = NULL THEN [hp |-> hp, ret |-> FALSE]
             ELSE LET h1 == dup_loop(n.hp, head, gc, n.hp.next[head],
                                     n.hp.next[n.hp.next[head]], TRUE, MaxNodes + 1)
                  IN  [hp |-> q_free(h1, gc), ret |-> TRUE]

\* okG: the outcome of the malloc of the scratch ring's sentinel.
q_delete_dup(hp, head, okG) ==
    IF head = NULL THEN [hp |-> hp, ret |-> FALSE]
    ELSE IF list_empty(hp, head) THEN [hp |-> hp, ret |-> TRUE]
    ELSE LET n == q_new(hp, okG)
             gc == n.ret
         IN  IF gc = NULL THEN [hp |-> hp, ret |-> FALSE]
             ELSE LET h1 == dup_loop(n.hp, head, gc, n.hp.next[head],
                                     n.hp.next[n.hp.next[head]], FALSE, MaxNodes + 1)
                  IN  [hp |-> q_free(h1, gc), ret |-> TRUE]

\* swap_loop that exchanges the buffers of the two elements and leaves the
\* links alone.
RECURSIVE swap_loop_values(_, _, _, _)
swap_loop_values(hp, head, loc, fuel) ==
    IF hp.next[loc] # head /\ hp.next[hp.next[loc]] # head /\ fuel > 0
    THEN LET a == hp.next[loc]
             b == hp.next[a]
             h1 == [hp EXCEPT !.value[a] = hp.value[b], !.value[b] = hp.value[a]]
         IN  swap_loop_values(h1, head, b, fuel - 1)
    ELSE hp

\* swap_loop that advances indirect by one node instead of two.
RECURSIVE swap_loop_step_one(_, _, _, _)
swap_loop_step_one(hp, head, loc, fuel) ==
    IF hp.next[loc] # head /\ hp.next[hp.next[loc]] # head /\ fuel > 0
    THEN LET h1 == list_move(hp, hp.next[loc], hp.next[hp.next[loc]])
         IN  swap_loop_step_one(h1, head, h1.next[loc], fuel - 1)
    ELSE hp

\* The loop of q_swap; loc is the list_head whose next field indirect points to.
RECURSIVE swap_loop(_, _, _, _)
swap_loop(hp, head, loc, fuel) ==
    IF hp.next[loc] # head /\ hp.next[hp.next[loc]] # head /\ fuel > 0
    THEN LET h1 == list_move(hp, hp.next[loc], hp.next[hp.next[loc]])
         IN  swap_loop(h1, head, h1.next[h1.next[loc]], fuel - 1)
    ELSE hp

q_swap(hp, head) ==
    IF head = NULL \/ list_empty(hp, head) THEN hp
    ELSE swap_loop(hp, head, head, MaxNodes + 1)

\* The loop of q_reverse: swap the two links of every element.
RECURSIVE reverse_loop(_, _, _, _)
reverse_loop(hp, head, pos, fuel) ==
    IF pos = head \/ pos = NULL \/ fuel = 0 THEN hp
    ELSE LET tmp == hp.prev[pos]
             h1 == [hp EXCEPT !.prev[pos] = hp.next[pos], !.next[pos] = tmp]
         IN  reverse_loop(h1, head, h1.prev[pos], fuel - 1)

\* q_reverse that forgets to swap the sentinel's own links.
q_reverse_no_anchor(hp, head) ==
    IF head = NULL \/ list_empty(hp, head) THEN hp
    ELSE reverse_loop(hp, head, hp.next[head], MaxNodes + 1)

q_reverse(hp, head) ==
    IF head = NULL \/ list_empty(hp, head) THEN hp
    ELSE LET h1 == reverse_loop(hp, head, hp.next[head], MaxNodes + 1)
             last == h1.next[head]
         IN  [h1 EXCEPT !.next[head] = h1.prev[head], !.prev[head] = last]

\* bit_or with & for |.
RECURSIVE bit_and(_, _)
bit_and(a, b) ==
    IF a = 0 \/ b = 0 THEN 0
    ELSE (IF a % 2 = 1 /\ b % 2 = 1 THEN 1 ELSE 0) + 2 * bit_and(a \div 2, b \div 2)

\* (uintptr_t) a | (uintptr_t) b.
RECURSIVE bit_or(_, _)
bit_or(a, b) ==
    IF a = 0 THEN b
    ELSE IF b = 0 THEN a
    ELSE (IF a % 2 = 1 \/ b % 2 = 1 THEN 1 ELSE 0) + 2 * bit_or(a \div 2, b \div 2)

\* merge_takes_left with < for <=: on a tie the right chain's node goes first.
merge_takes_left_strict(hp, L1, L2) == strcmp(hp.value[L1], hp.value[L2]) < 0

\* The comparison of merge: take the node of the left chain.
merge_takes_left(hp, L1, L2) == strcmp(hp.value[L1], hp.value[L2]) <= 0

\* The loop of merge.  hd is the local variable head; ptr is NULL while it
\* points to hd and otherwise the node whose next field it points to.  Next
\* to the heap and the chain returned, the result tells what L1 and L2 were
\* when the loop was left.
RECURSIVE merge_loop(_, _, _, _, _, _)
merge_loop(hp, L1, L2, hd, ptr, fuel) ==
    IF L1 # NULL /\ L2 # NULL /\ fuel > 0
    THEN LET left == merge_takes_left(hp, L1, L2)
             cur == IF left THEN L1 ELSE L2
             h1 == IF ptr = NULL THEN hp ELSE [hp EXCEPT !.next[ptr] = cur]
             hd1 == IF ptr = NULL THEN cur ELSE hd
         IN  merge_loop(h1, IF left THEN h1.next[L1] ELSE L1,
                        IF left THEN L2 ELSE h1.next[L2], hd1, cur, fuel - 1)
    ELSE LET rest == bit_or(L1, L2)
         IN  IF ptr = NULL THEN [hp |-> hp, ret |-> rest, L1 |-> L1, L2 |-> L2]
             ELSE [hp |-> [hp EXCEPT !.next[ptr] = rest], ret |-> hd, L1 |-> L1, L2 |-> L2]

merge(hp, L1, L2) == merge_loop(hp, L1, L2, NULL, NULL, 2 * MaxNodes)

\* split_loop that moves fast and leaves slow on the first node.
RECURSIVE split_loop_slow_stays(_, _, _, _)
split_loop_slow_stays(hp, slow, fast, fuel) ==
    IF fast # NULL /\ hp.next[fast] # NULL /\ fuel > 0
    THEN split_loop_slow_stays(hp, slow, hp.next[hp.next[fast]], fuel - 1)
    ELSE slow

\* The slow/fast loop of merge_sort: the node slow stops at.
RECURSIVE split_loop(_, _, _, _)
split_loop(hp, slow, fast, fuel) ==
    IF fast # NULL /\ hp.next[fast] # NULL /\ fuel > 0
    THEN split_loop(hp, hp.next[slow], hp.next[hp.next[fast]], fuel - 1)
    ELSE slow

\* Next to the heap and the chain returned, the result tells how the
\* recursion went: depth is the number of nested merge_sort calls, and calls
\* has one record for every call that split its chain, in the order of their
\* return: the heap and the chain it was entered with (hp, head), the heap
\* after the cut and the second half (cut, mid), and the heap and the two
\* chains it handed to merge (mhp, L1, L2).
RECURSIVE merge_sort(_, _, _)
merge_sort(hp, head, fuel) ==
    IF hp.next[head] = NULL \/ fuel = 0
    THEN [hp |-> hp, ret |-> head, calls |-> << >>, depth |-> 1]
    ELSE LET slow == split_loop(hp, head, hp.next[head], MaxNodes + 1)
             mid == hp.next[slow]
             h1 == [hp EXCEPT !.next[slow] = NULL]
             l == merge_sort(h1, head, fuel - 1)
             r == merge_sort(l.hp, mid, fuel - 1)
             m == merge(r.hp, l.ret, r.ret)
             call == [hp |-> hp, head |-> head, cut |-> h1, mid |-> mid,
                      mhp |-> r.hp, L1 |-> l.ret, L2 |-> r.ret]
         IN  [hp |-> m.hp, ret |-> m.ret,
              calls |-> l.calls \o r.calls \o <<call>>,
              depth |-> 1 + (IF l.depth >= r.depth THEN l.depth ELSE r.depth)]

\* restore_loop that walks the chain and leaves the prev links as they were.
RECURSIVE restore_loop_no_prev(_, _, _)
restore_loop_no_prev(hp, ptr, fuel) ==
    IF hp.next[ptr] # NULL /\ fuel > 0
    THEN restore_loop_no_prev(hp, hp.next[ptr], fuel - 1)
    ELSE [hp |-> hp, ret |-> ptr]

\* The loop of q_sort that rebuilds the prev links: [hp, ptr].
RECURSIVE restore_loop(_, _, _)
restore_loop(hp, ptr, fuel) ==
    IF hp.next[ptr] # NULL /\ fuel > 0
    THEN restore_loop([hp EXCEPT !.prev[hp.next[ptr]] = ptr], hp.next[ptr], fuel - 1)
    ELSE [hp |-> hp, ret |-> ptr]

\* head->prev->next = NULL: the ring becomes a chain that ends in NULL.
cut_last(hp, head) == [hp EXCEPT !.next[hp.prev[head]] = NULL]

q_sort(hp, head) ==
    IF head = NULL \/ list_empty(hp, head) THEN hp
    ELSE LET h1 == cut_last(hp, head)
             s == merge_sort(h1, h1.next[head], MaxNodes + 1)
             h2 == [s.hp EXCEPT !.next[head] = s.ret]
             r == restore_loop(h2, head, MaxNodes + 1)
         IN  [r.hp EXCEPT !.next[r.ret] = head, !.prev[head] = r.ret]

\* ----------------------------------------------------------------- state
VARIABLES
    q,        \* the caller's queue handle: NULL or the sentinel's address
    next,     \* the next field of every list_head
    prev,     \* the prev field of every list_head
    mem,      \* which blocks are allocated
    value,    \* the string buffer of every element
    bad,      \* an invalid free or a use after free has happened
    held,     \* the elements a remove returned and the caller has not released
    lastop,   \* the last call that returned
    ret,      \* what it returned
    arg,      \* the string it was handed (NoStr when none)
    sp,       \* the output buffer it was handed and what it holds now
    pre,      \* the ring, the buffers and the allocation map when it was called
    fault     \* a call was killed by an out of bounds access

vars == <<q, next, prev, mem, value, bad, held, lastop, ret, arg, sp, pre, fault>>

Heap == [next |-> next, prev |-> prev, mem |-> mem, value |-> value, bad |-> bad]

SetHeap(hp) ==
    /\ next' = hp.next
    /\ prev' = hp.prev
    /\ mem' = hp.mem
    /\ value' = hp.value
    /\ bad' = hp.bad

\* The elements met walking next from h until h comes back.
RECURSIVE Walk(_, _, _, _)
Walk(nx, h, p, fuel) ==
    IF p = h \/ p = NULL \/ fuel = 0 THEN << >>
    ELSE <<p>> \o Walk(nx, h, nx[p], fuel - 1)

\* The queue as a sequence of elements, first to last (empty for no queue).
Ring(hp, h) == IF h = NULL THEN << >> ELSE Walk(hp.next, h, hp.next[h], MaxNodes + 1)

Snapshot == [ring |-> Ring(Heap, q), value |-> value, mem |-> mem]

NoSp == [given |-> FALSE, cap |-> 0, buf |-> << >>]

\* The (sp, bufsize) pairs a caller hands to a remove.
SpArgs == {NoSp} \cup {[given |-> TRUE, cap |-> c, buf |-> << >>] : c \in 0 .. MaxBufSize}

\* What every call that returns records.
Returned(op, r, s, out) ==
    /\ lastop' = op
    /\ ret' = r
    /\ arg' = s
    /\ sp' = out
    /\ pre' = Snapshot
    /\ UNCHANGED fault

\* The heap with nothing allocated.
EmptyHeap ==
    [next |-> [a \in Addr |-> NULL], prev |-> [a \in Addr |-> NULL],
     mem |-> [a \in Addr |-> FALSE], value |-> [n \in Nodes |-> << >>], bad |-> FALSE]

EmptySnapshot == [ring |-> << >>, value |-> EmptyHeap.value, mem |-> EmptyHeap.mem]

Init ==
    /\ q = NULL
    /\ next = EmptyHeap.next
    /\ prev = EmptyHeap.prev
    /\ mem = EmptyHeap.mem
    /\ value = EmptyHeap.value
    /\ bad = EmptyHeap.bad
    /\ held = {}
    /\ lastop = "init"
    /\ ret = NULL
    /\ arg = NoStr
    /\ sp = NoSp
    /\ pre = EmptySnapshot
    /\ fault = FALSE

\* q = q_new(), called when the caller has no queue.
QNew ==
    /\ ~fault
    /\ q = NULL
    /\ \E ok \in BOOLEAN :
         LET r == q_new(Heap, ok)
         IN  /\ SetHeap(r.hp)
             /\ q' = r.ret
             /\ Returned("q_new", r.ret, NoStr, NoSp)
    /\ UNCHANGED held

\* q_free(q); q = NULL.
QFree ==
    /\ ~fault
    /\ SetHeap(q_free(Heap, q))
    /\ q' = NULL
    /\ Returned("q_free", NULL, NoStr, NoSp)
    /\ UNCHANGED held

\* The outcomes of the two mallocs of an insert: both succeed, the first
\* fails (the second is never called), the second fails.
MallocOutcomes ==
    {[okE |-> TRUE, okV |-> TRUE], [okE |-> FALSE, okV |-> FALSE], [okE |-> TRUE, okV |-> FALSE]}

QInsertHead ==
    /\ ~fault
    /\ \E s \in Strings \cup {NoStr}, m \in MallocOutcomes :
         /\ m.okE => \E n \in Nodes : ~mem[n]
         /\ LET r == q_insert_head(Heap, q, s, m.okE, m.okV)
            IN  /\ SetHeap(r.hp)
                /\ Returned("q_insert_head", r.ret, s, NoSp)
    /\ UNCHANGED <<q, held>>

QInsertTail ==
    /\ ~fault
    /\ \E s \in Strings \cup {NoStr}, m \in MallocOutcomes :
         /\ m.okE => \E n \in Nodes : ~mem[n]
         /\ LET r == q_insert_tail(Heap, q, s, m.okE, m.okV)
            IN  /\ SetHeap(r.hp)
                /\ Returned("q_insert_tail", r.ret, s, NoSp)
    /\ UNCHANGED <<q, held>>

\* The bytes a read of n bytes past the end of a buffer may find.
Beyond(n) == [1 .. n -> AnyByte]

\* The caller releases the element a remove gave it before it removes another.
\* e = q_remove_head(q, sp, bufsize), with a copy that stays in bounds or
\* reads past the end of e->value and finds some bytes there.
QRemoveHead ==
    /\ ~fault
    /\ held = {}
    /\ \E a \in SpArgs :
         LET e == IF q = NULL \/ list_empty(Heap, q) THEN NULL ELSE next[q]
             over == IF e = NULL \/ ~a.given THEN 0 ELSE over_read(value[e], a.cap)
         IN  /\ a.given /\ e # NULL => a.cap > 0
             /\ \E beyond \in Beyond(over) :
                  LET r == q_remove_head(Heap, q, a.given, a.cap, beyond)
                  IN  /\ SetHeap(r.hp)
                      /\ held' = IF r.ret = NULL THEN held ELSE held \cup {r.ret}
                      /\ Returned("q_remove_head", r.ret, NoStr, [a EXCEPT !.buf = r.buf])
    /\ UNCHANGED q

QRemoveTail ==
    /\ ~fault
    /\ held = {}
    /\ \E a \in SpArgs :
         LET e == IF q = NULL \/ list_empty(Heap, q) THEN NULL ELSE prev[q]
             over == IF e = NULL \/ ~a.given THEN 0 ELSE over_read(value[e], a.cap)
         IN  /\ a.given /\ e # NULL => a.cap > 0
             /\ \E beyond \in Beyond(over) :
                  LET r == q_remove_tail(Heap, q, a.given, a.cap, beyond)
                  IN  /\ SetHeap(r.hp)
                      /\ held' = IF r.ret = NULL THEN held ELSE held \cup {r.ret}
                      /\ Returned("q_remove_tail", r.ret, NoStr, [a EXCEPT !.buf = r.buf])
    /\ UNCHANGED q

\* The copy of a remove reads past the end of e->value, or (bufsize 0) writes
\* past the end of sp, and the access kills the process: the call never
\* returns and nothing of the process is left but the record of the access
\* (arg: the string that was being copied, sp: the buffer handed in).
QRemoveFault ==
    /\ ~fault
    /\ held = {}
    /\ q # NULL
    /\ ~list_empty(Heap, q)
    /\ \E a \in SpArgs, e \in {next[q], prev[q]} :
         /\ a.given
         /\ over_read(value[e], a.cap) > 0
         /\ arg' = value[e]
         /\ sp' = a
    /\ fault' = TRUE
    /\ lastop' = "killed"
    /\ ret' = NULL
    /\ q' = NULL
    /\ SetHeap(EmptyHeap)
    /\ held' = {}
    /\ pre' = EmptySnapshot

\* The caller releases an element a remove gave it.
QReleaseElement ==
    /\ ~fault
    /\ \E e \in held :
         /\ SetHeap(q_release_element(Heap, e))
         /\ held' = held \ {e}
         /\ Returned("q_release_element", e, NoStr, NoSp)
    /\ UNCHANGED q

QSize ==
    /\ ~fault
    /\ Returned("q_size", q_size(Heap, q), NoStr, NoSp)
    /\ UNCHANGED <<q, next, prev, mem, value, bad, held>>

QDeleteMid ==
    /\ ~fault
    /\ LET r == q_delete_mid(Heap, q)
       IN  /\ SetHeap(r.hp)
           /\ Returned("q_delete_mid", r.ret, NoStr, NoSp)
    /\ UNCHANGED <<q, held>>

QDeleteDup ==
    /\ ~fault
    /\ \E okG \in BOOLEAN :
         LET r == q_delete_dup(Heap, q, okG)
         IN  /\ SetHeap(r.hp)
             /\ Returned("q_delete_dup", r.ret, NoStr, NoSp)
    /\ UNCHANGED <<q, held>>

QSwap ==
    /\ ~fault
    /\ SetHeap(q_swap(Heap, q))
    /\ Returned("q_swap", NULL, NoStr, NoSp)
    /\ UNCHANGED <<q, held>>

QReverse ==
    /\ ~fault
    /\ SetHeap(q_reverse(Heap, q))
    /\ Returned("q_reverse", NULL, NoStr, NoSp)
    /\ UNCHANGED <<q, held>>

QSort ==
    /\ ~fault
    /\ SetHeap(q_sort(Heap, q))
    /\ Returned("q_sort", NULL, NoStr, NoSp)
    /\ UNCHANGED <<q, held>>

Next ==
    \/ QNew
    \/ QFree
    \/ QInsertHead
    \/ QInsertTail
    \/ QRemoveHead
    \/ QRemoveTail
    \/ QRemoveFault
    \/ QReleaseElement
    \/ QSize
    \/ QDeleteMid
    \/ QDeleteDup
    \/ QSwap
    \/ QReverse
    \/ QSort

Spec == Init /\ [][Next]_vars

\* ------------------------------------------------------------ properties
\* The queue now, first element to last.
CurRing == Ring(Heap, q)

Range(s) == {s[i] : i \in DOMAIN s}

NoRepeat(s) == \A i, j \in DOMAIN s : i # j => s[i] # s[j]

Reversed(s) == [i \in 1 .. Len(s) |-> s[Len(s) + 1 - i]]

\* s without its element at 1-based position k.
WithoutAt(s, k) == [i \in 1 .. (Len(s) - 1) |-> IF i < k THEN s[i] ELSE s[i + 1]]

\* The 1-based position of e in s.
PosIn(s, e) == CHOOSE i \in DOMAIN s : s[i] = e

\* s is in non-decreasing order of the strings val gives its elements.
Ascending(val, s) == \A i \in 1 .. (Len(s) - 1) : strcmp(val[s[i]], val[s[i + 1]]) <= 0

\* How many elements of s hold the string of e.
Copies(val, s, e) == Cardinality({i \in DOMAIN s : val[s[i]] = val[e]})

\* The elements that are allocated and not in the caller's hands.
Owned == {n \in Nodes : mem[n] /\ n \notin held}

IsRemove == lastop \in {"q_remove_head", "q_remove_tail"}

IsInsert == lastop \in {"q_insert_head", "q_insert_tail"}

\* C1: q_delete_dup on a ring sorted ascending returns with exactly the
\* elements left whose string occurred once, in their original order; no copy
\* of a string that occurred more than once is kept.
C1_DeleteDupRemovesEveryCopy ==
    (lastop = "q_delete_dup" /\ ret = TRUE /\ Ascending(pre.value, pre.ring))
        => CurRing = SelectSeq(pre.ring, LAMBDA e : Copies(pre.value, pre.ring, e) = 1)

\* C2: q_delete_mid on a ring of n elements removes the element at 0-based
\* index floor(n / 2) and keeps the others in order.
C2_DeleteMidRemovesFloorHalf ==
    (lastop = "q_delete_mid" /\ ret = TRUE)
        => CurRing = WithoutAt(pre.ring, (Len(pre.ring) \div 2) + 1)

\* C3: q_sort of a non-empty ring leaves the same elements in non-decreasing
\* order of their strings, and elements with equal strings in the relative
\* order they had before (the sort is stable).
C3_SortAscendingStable ==
    (lastop = "q_sort" /\ pre.ring # << >>)
        => /\ Range(CurRing) = Range(pre.ring)
           /\ Len(CurRing) = Len(pre.ring)
           /\ Ascending(value, CurRing)
           /\ \A i, j \in DOMAIN CurRing :
                (i < j /\ value[CurRing[i]] = value[CurRing[j]])
                    => PosIn(pre.ring, CurRing[i]) < PosIn(pre.ring, CurRing[j])

\* q_sort has reordered a ring of three elements, two of them equal.
C3_Witness ==
    /\ lastop = "q_sort"
    /\ Len(CurRing) = 3
    /\ CurRing # pre.ring
    /\ \E i, j \in DOMAIN CurRing : i # j /\ value[CurRing[i]] = value[CurRing[j]]

\* C4: whenever a call has returned, the ring is a closed circular
\* doubly-linked list: next from the sentinel meets every element the queue
\* owns once and comes back to the sentinel, next and prev are inverse at
\* every node of it, and the queue owns nothing exactly when the sentinel
\* points to itself both ways.
C4_RingClosed ==
    q # NULL =>
        LET R == CurRing
            last == IF R = << >> THEN q ELSE R[Len(R)]
        IN  /\ mem[q]
            /\ NoRepeat(R)
            /\ Range(R) = Owned
            /\ next[last] = q
            /\ \A x \in Range(R) \cup {q} : prev[next[x]] = x /\ next[prev[x]] = x
            /\ (Owned = {}) <=> (next[q] = q /\ prev[q] = q)

\* q_sort has returned from reordering a ring of three elements.
C4_Witness ==
    /\ lastop = "q_sort"
    /\ Len(CurRing) = 3
    /\ CurRing # pre.ring
    /\ prev[q] = CurRing[3]

\* C5: every element an insert made is linked in the ring, or in the
\* caller's hands, or released, and never two of these; no block is freed
\* twice or while a link still points to it; an element's buffer lives as
\* long as the element; and elements are released by q_release_element,
\* q_delete_mid, q_delete_dup and q_free only.
C5_ElementInOnePlace ==
    /\ ~bad
    /\ \A n \in Nodes :
         /\ mem[n] => (n \in Range(CurRing)) # (n \in held)
         /\ ~mem[n] => (n \notin Range(CurRing) /\ n \notin held)
         /\ mem[n] <=> value[n] # << >>
         /\ ~linked(Heap, n) => n \notin Range(CurRing)
    /\ NoRepeat(CurRing)
    /\ (\E n \in Nodes : pre.mem[n] /\ ~mem[n] /\ ~fault)
         => lastop \in {"q_release_element", "q_delete_mid", "q_delete_dup", "q_free"}

\* q_delete_mid has released an element while another is in the ring and a
\* third in the caller's hands.
C5_Witness ==
    /\ lastop = "q_delete_mid"
    /\ ret = TRUE
    /\ held # {}
    /\ CurRing # << >>
    /\ \E n \in Nodes : pre.mem[n] /\ ~mem[n]

\* C6: q_size returns the number of elements the queue owns and changes
\* nothing; that number is 0 for no queue, one more than before after an
\* insert that succeeded and one less after a remove that returned an element.
C6_SizeCountsRing ==
    /\ lastop = "q_size" =>
         /\ ret = Cardinality(Owned)
         /\ CurRing = pre.ring /\ value = pre.value /\ mem = pre.mem
    /\ q_size(Heap, q) = Cardinality(Owned)
    /\ q = NULL => q_size(Heap, q) = 0
    /\ (IsInsert /\ ret = TRUE) => q_size(Heap, q) = Len(pre.ring) + 1
    /\ (IsRemove /\ ret # NULL) => q_size(Heap, q) = Len(pre.ring) - 1

\* q_size has returned 3.
C6_Witness == lastop = "q_size" /\ ret = 3 /\ Len(CurRing) = 3

\* C7: an insert that succeeds makes a new element, holding the string it
\* was handed byte for byte, the first (q_insert_head) or the last
\* (q_insert_tail) of the ring; the elements that were in the ring keep their
\* order and their strings.
C7_InsertAtEnd ==
    (IsInsert /\ ret = TRUE) =>
        LET e == IF lastop = "q_insert_head" THEN next[q] ELSE prev[q]
        IN  /\ ~pre.mem[e]
            /\ e \notin Range(pre.ring)
            /\ value[e] = arg
            /\ strlen(value[e]) = strlen(arg)
            /\ CurRing = IF lastop = "q_insert_head" THEN <<e>> \o pre.ring
                                                     ELSE pre.ring \o <<e>>
            /\ \A n \in Range(pre.ring) : value[n] = pre.value[n]

\* q_insert_tail has put "ab" behind two other elements.
C7_Witness ==
    /\ lastop = "q_insert_tail"
    /\ ret = TRUE
    /\ arg = <<1, 2, NUL>>
    /\ Len(CurRing) = 3
    /\ value[CurRing[3]] = <<1, 2, NUL>>

\* What a remove that returned an element did to the ring.
RemoveUnlinksEnd ==
    (IsRemove /\ pre.ring # << >>) =>
        /\ ret = IF lastop = "q_remove_head" THEN Head(pre.ring) ELSE pre.ring[Len(pre.ring)]
        /\ CurRing = IF lastop = "q_remove_head" THEN Tail(pre.ring)
                     ELSE SubSeq(pre.ring, 1, Len(pre.ring) - 1)
        /\ ret \in held
        /\ mem[ret]
        /\ \A n \in Range(pre.ring) : value[n] = pre.value[n]

\* C8: on a non-empty queue q_remove_head returns the first and q_remove_tail
\* the last element, unlinked, not released, its string unchanged, the others
\* in order; and q_insert_head(s) followed at once by q_remove_head returns
\* an element holding s and leaves the ring as it was before the insert.
C8_RemoveReturnsEnd ==
    /\ []RemoveUnlinksEnd
    /\ [][(lastop = "q_insert_head" /\ ret = TRUE /\ lastop' = "q_remove_head")
            => (ret' # NULL /\ value'[ret'] = arg /\ CurRing' = pre.ring)]_vars

\* q_remove_tail has returned the last of three elements.
C8_Witness ==
    /\ lastop = "q_remove_tail"
    /\ Len(pre.ring) = 3
    /\ ret = pre.ring[3]
    /\ held = {ret}

\* C9: a remove that returns an element of string length len, handed a
\* buffer of capacity c >= 1, leaves in it the first min(len, c - 1) bytes of
\* the string and then a terminator; handed no buffer it copies nothing and
\* still removes and returns the element.
C9_RemoveCopiesPrefix ==
    (IsRemove /\ ret # NULL) =>
        IF sp.given
        THEN LET len == strlen(value[ret])
                 m == IF len < sp.cap - 1 THEN len ELSE sp.cap - 1
             IN  /\ sp.cap >= 1
                 /\ Len(sp.buf) = sp.cap
                 /\ \A i \in 1 .. m : sp.buf[i] = value[ret][i]
                 /\ sp.buf[m + 1] = NUL
        ELSE /\ sp.buf = << >>
             /\ ret \in held
             /\ ret \notin Range(CurRing)
             /\ Len(CurRing) = Len(pre.ring) - 1

\* A remove has cut "ab" down to "a" in a buffer of capacity 2.
C9_Witness ==
    /\ IsRemove
    /\ ret # NULL
    /\ sp.given
    /\ sp.cap = 2
    /\ value[ret] = <<1, 2, NUL>>
    /\ sp.buf = <<1, NUL>>

\* What one q_reverse does to the ring.
ReverseReverses == lastop = "q_reverse" => CurRing = Reversed(pre.ring)

\* C10: q_reverse turns the ring e0 .. e(n-1) into e(n-1) .. e0, the same
\* elements, and a second q_reverse right after it gives the ring back as it
\* was, for every n >= 0.
C10_ReverseSelfInverse ==
    /\ []ReverseReverses
    /\ [][(lastop = "q_reverse" /\ lastop' = "q_reverse") => CurRing' = pre.ring]_vars

\* q_reverse has reversed a ring of three elements.
C10_Witness ==
    /\ lastop = "q_reverse"
    /\ Len(CurRing) = 3
    /\ CurRing = <<pre.ring[3], pre.ring[2], pre.ring[1]>>

\* s with the elements of every pair (1st, 2nd), (3rd, 4th), ... exchanged.
PairsSwapped(s) ==
    [i \in 1 .. Len(s) |->
        IF i % 2 = 1 THEN (IF i + 1 <= Len(s) THEN s[i + 1] ELSE s[i]) ELSE s[i - 1]]

\* C11: q_swap exchanges the elements at 0-based positions 2i and 2i + 1 for
\* every i < floor(n / 2) and leaves the last element of a ring of odd
\* length where it is.
C11_SwapPairs == lastop = "q_swap" => CurRing = PairsSwapped(pre.ring)

\* q_swap has turned a ring [x, y, z] into [y, x, z].
C11_Witness ==
    /\ lastop = "q_swap"
    /\ Len(pre.ring) = 3
    /\ CurRing = <<pre.ring[2], pre.ring[1], pre.ring[3]>>

\* C12: an insert that returns false because one of its two allocations
\* failed (or for any other reason) leaves the ring as it was and leaves no
\* block allocated that was not allocated before the call.
C12_FailedInsertUnwinds ==
    (IsInsert /\ ret = FALSE) =>
        /\ CurRing = pre.ring
        /\ mem = pre.mem
        /\ value = pre.value
        /\ ~bad

\* An insert of "ab" into a ring of two elements has failed in a malloc (the
\* queue is there, the string is there, an address is free).
C12_Witness ==
    /\ IsInsert
    /\ ret = FALSE
    /\ q # NULL
    /\ arg = <<1, 2, NUL>>
    /\ Len(CurRing) = 2
    /\ \E n \in Nodes : ~mem[n]

\* C13: q_free releases every element of the ring once, buffer and element,
\* and then the sentinel: of what the queue owned nothing stays allocated,
\* and what the caller holds is not touched; q_free of no queue does nothing.
C13_FreeReleasesAll ==
    lastop = "q_free" =>
        /\ ~bad
        /\ \A n \in Range(pre.ring) : ~mem[n] /\ value[n] = << >>
        /\ \A h \in Heads : ~mem[h]
        /\ \A n \in Nodes : mem[n] => n \in held
        /\ \A n \in Nodes \ Range(pre.ring) : mem[n] = pre.mem[n] /\ value[n] = pre.value[n]
        /\ (\A h \in Heads : ~pre.mem[h]) => (mem = pre.mem /\ value = pre.value)

\* q_free has released a ring of three elements and the sentinel.
C13_Witness ==
    /\ lastop = "q_free"
    /\ Len(pre.ring) = 3
    /\ pre.mem[H]
    /\ \A a \in Addr : ~mem[a]

\* The last call left the buffers and the allocation map as they were.
MemoryAsBefore == mem = pre.mem /\ value = pre.value /\ ~bad

\* The calls that take the queue handle and leave the caller's handle alone.
OnHandle ==
    {"q_insert_head", "q_insert_tail", "q_remove_head", "q_remove_tail", "q_size",
     "q_delete_mid", "q_delete_dup", "q_swap", "q_reverse", "q_sort"}

\* C14: with no queue every call fails or does nothing and touches no state:
\* the inserts and q_delete_mid, q_delete_dup return false, the removes NULL,
\* q_size 0, and q_swap, q_reverse, q_sort, q_free change nothing; an insert
\* of no string returns false, leaves the ring as it was, allocates nothing.
C14_AbsentHandleNoOp ==
    /\ (lastop \in OnHandle /\ q = NULL) =>
           /\ MemoryAsBefore
           /\ \A a \in Addr : next[a] = NULL /\ prev[a] = NULL
           /\ IsInsert => ret = FALSE
           /\ IsRemove => ret = NULL /\ sp.buf = << >>
           /\ lastop = "q_size" => ret = 0
           /\ lastop \in {"q_delete_mid", "q_delete_dup"} => ret = FALSE
    /\ (lastop = "q_free" /\ \A h \in Heads : ~pre.mem[h]) => MemoryAsBefore
    /\ (IsInsert /\ arg = NoStr) => (ret = FALSE /\ CurRing = pre.ring /\ MemoryAsBefore)

\* An insert of a string was tried with no queue, while the caller still
\* holds an element of the queue it freed.
C14_Witness ==
    /\ IsInsert
    /\ q = NULL
    /\ arg # NoStr
    /\ held # {}
    /\ ret = FALSE

\* The ring before the last call was sorted and held no string twice.
WasSortedDistinct ==
    /\ Ascending(pre.value, pre.ring)
    /\ \A e \in Range(pre.ring) : Copies(pre.value, pre.ring, e) = 1

\* C15, as stated: q_delete_dup on a sorted ring without equal strings
\* returns true, leaves the ring as it was and releases nothing; on an empty
\* queue it returns true and does nothing.
C15_DeleteDupDistinctReturnsTrue ==
    (lastop = "q_delete_dup" /\ q # NULL /\ WasSortedDistinct) =>
        (ret = TRUE /\ CurRing = pre.ring /\ MemoryAsBefore)

\* C15, amended: q_delete_dup on a sorted ring without equal strings leaves
\* the ring as it was and releases nothing; it returns true on an empty
\* queue, and on a non-empty one true when the malloc of its scratch sentinel
\* succeeds and false when that malloc fails.
C15_DeleteDupDistinctUnchanged ==
    /\ (lastop = "q_delete_dup" /\ q # NULL /\ WasSortedDistinct) =>
           /\ CurRing = pre.ring
           /\ MemoryAsBefore
           /\ pre.ring = << >> => ret = TRUE
    /\ (q # NULL /\ Ascending(value, CurRing)
             /\ \A e \in Range(CurRing) : Copies(value, CurRing, e) = 1) =>
           /\ q_delete_dup(Heap, q, TRUE).ret = TRUE
           /\ q_delete_dup(Heap, q, FALSE).ret = (CurRing = << >>)

\* q_delete_dup has returned true on a sorted ring of three different strings.
C15_Witness ==
    /\ lastop = "q_delete_dup"
    /\ ret = TRUE
    /\ Len(pre.ring) = 3
    /\ WasSortedDistinct

\* C16: q_delete_mid on a non-empty ring returns true, unlinks and releases
\* one element and leaves the others in their order; on an empty or absent
\* queue it returns false and changes nothing.
C16_DeleteMidRemovesOne ==
    lastop = "q_delete_mid" =>
        IF pre.ring = << >>
        THEN ret = FALSE /\ CurRing = pre.ring /\ MemoryAsBefore
        ELSE /\ ret = TRUE
             /\ ~bad
             /\ \E k \in DOMAIN pre.ring :
                  /\ CurRing = WithoutAt(pre.ring, k)
                  /\ ~mem[pre.ring[k]]
                  /\ value[pre.ring[k]] = << >>
                  /\ \A n \in Nodes \ {pre.ring[k]} :
                       mem[n] = pre.mem[n] /\ value[n] = pre.value[n]
                  /\ \A h \in Heads : mem[h] = pre.mem[h]

\* q_delete_mid has taken one element out of a ring of three.
C16_Witness ==
    /\ lastop = "q_delete_mid"
    /\ ret = TRUE
    /\ Len(pre.ring) = 3
    /\ Len(CurRing) = 2
    /\ Cardinality({n \in Nodes : mem[n]}) = 2

\* C17: q_swap, q_reverse and q_sort only relink: the ring holds the same
\* elements with the same strings, and nothing is allocated or released.
C17_RelinkOnly ==
    lastop \in {"q_swap", "q_reverse", "q_sort"} =>
        /\ Range(CurRing) = Range(pre.ring)
        /\ Len(CurRing) = Len(pre.ring)
        /\ MemoryAsBefore

\* One of the three has changed the order of a ring of three elements.
C17_Witness ==
    /\ lastop \in {"q_swap", "q_reverse", "q_sort"}
    /\ Len(pre.ring) = 3
    /\ CurRing # pre.ring
    /\ value = pre.value

\* The nodes of the chain that starts at p and ends in NULL.
Chain(hp, p) == Walk(hp.next, NULL, p, MaxNodes + 1)

\* What the merge_sort of a q_sort called now does.
SortRun == merge_sort(cut_last(Heap, q), next[q], MaxNodes + 1)

\* The call of merge recorded in c gets two chains with a node each, leaves
\* its loop with one of L1, L2 null, attaches the other one, and returns a
\* chain that holds every node of the two chains once.
MergeSound(c) ==
    LET m == merge(c.mhp, c.L1, c.L2)
        in1 == Chain(c.mhp, c.L1)
        in2 == Chain(c.mhp, c.L2)
        out == Chain(m.hp, m.ret)
    IN  /\ c.L1 # NULL /\ c.L2 # NULL
        /\ (m.L1 = NULL) # (m.L2 = NULL)
        /\ bit_or(m.L1, m.L2) = (IF m.L1 = NULL THEN m.L2 ELSE m.L1)
        /\ Range(in1) \cap Range(in2) = {}
        /\ Len(out) = Len(in1) + Len(in2)
        /\ NoRepeat(out)
        /\ Range(out) = Range(in1) \cup Range(in2)

\* C18: in every call of merge that a q_sort makes, both chains are
\* non-empty on entry, exactly one of L1 and L2 is null when the loop is
\* left, their bitwise OR is the pointer to the chain that remains, and every
\* node of the two chains is in the chain returned exactly once.
C18_MergeCallsSound ==
    [][(lastop' = "q_sort" /\ q # NULL /\ CurRing # << >>) =>
           \A i \in DOMAIN SortRun.calls : MergeSound(SortRun.calls[i])]_vars

\* q_sort has sorted a ring of three elements that were in descending order:
\* two calls of merge, the second one with a chain of two nodes.
C18_Witness ==
    /\ lastop = "q_sort"
    /\ Len(pre.ring) = 3
    /\ CurRing = Reversed(pre.ring)
    /\ \A i \in 1 .. 2 : strcmp(value[CurRing[i]], value[CurRing[i + 1]]) < 0

RECURSIVE CeilLog2(_)
\* The least k with 2^k >= n.
CeilLog2(n) == IF n <= 1 THEN 0 ELSE 1 + CeilLog2((n + 1) \div 2)

\* The call of merge_sort recorded in c cut a chain of n >= 2 nodes into a
\* first half of ceil(n / 2) and a second half of floor(n / 2) nodes.
SplitBalanced(c) ==
    LET n == Len(Chain(c.hp, c.head))
        left == Len(Chain(c.cut, c.head))
        right == Len(Chain(c.cut, c.mid))
    IN  /\ n >= 2
        /\ left = (n + 1) \div 2
        /\ right = n \div 2
        /\ left >= 1 /\ right >= 1
        /\ Chain(c.hp, c.head) = Chain(c.cut, c.head) \o Chain(c.cut, c.mid)

\* C19: q_sort terminates: it cuts the forward link of the last element, so
\* that the chain of the n elements ends in NULL; every merge_sort call on a
\* chain of n >= 2 nodes cuts it into two non-empty chains of ceil(n / 2) and
\* floor(n / 2) nodes; and the recursion is at most ceil(log2 n) + 1 deep.
C19_SortTerminates ==
    [][(lastop' = "q_sort" /\ q # NULL /\ CurRing # << >>) =>
           /\ Chain(cut_last(Heap, q), next[q]) = CurRing
           /\ cut_last(Heap, q).next[prev[q]] = NULL
           /\ \A i \in DOMAIN SortRun.calls : SplitBalanced(SortRun.calls[i])
           /\ SortRun.depth <= CeilLog2(Len(CurRing)) + 1
           /\ Len(SortRun.calls) = Len(CurRing) - 1]_vars

\* q_sort has returned on a ring of three elements that it had to reorder
\* (a split into two and one, then the two into one and one).
C19_Witness ==
    /\ lastop = "q_sort"
    /\ Len(pre.ring) = 3
    /\ CurRing # pre.ring
    /\ Ascending(value, CurRing)

\* memcpy(sp, e->value, bufsize - 1) and sp[bufsize - 1] = '\0' stay inside
\* the buffer of val (strlen(val) + 1 bytes) and inside the bufsize bytes of sp.
CopyInBounds(val, bufsize) ==
    /\ copy_len(bufsize) <= strlen(val) + 1
    /\ copy_len(bufsize) + 1 <= bufsize

\* C20: the copy of a remove reads at most len + 1 bytes of the element's
\* buffer and writes at most c bytes into the output buffer, whatever c is
\* (also when c - 1 > len, also when c = 0): no call is killed by its copy and
\* no call that returned has read or written past the end of a buffer.
C20_RemoveCopyInBounds ==
    /\ (IsRemove /\ ret # NULL /\ sp.given) => CopyInBounds(value[ret], sp.cap)
    /\ lastop = "killed" => CopyInBounds(arg, sp.cap)

====
